---- MODULE Spec2Model ----
(***************************************************************************)
(* Ledger core of securepay-wallet: wallets, the transactions table and    *)
(* the request handlers that move money (deposit initiation, Paystack      *)
(* webhook settlement, transfer, pending-transaction clean-up).            *)
(*                                                                         *)
(* Every handler opens its own SQLAlchemy session on the shared database.  *)
(* The engine is created without an isolation level, so a SELECT sees the  *)
(* rows committed at the moment it runs, and a commit flushes              *)
(*   UPDATE ... SET <changed column> = <value computed in Python>          *)
(*   WHERE id = <primary key>                                              *)
(* for every object the handler changed.  A handler is therefore modelled  *)
(* as one step per database round trip (SELECT, or flush + COMMIT), with   *)
(* the objects it loaded kept in req[p] between the steps.                 *)
(*                                                                         *)
(* Amounts are floats of currency units in the code; the model keeps them  *)
(* as integers of minor units (kobo).  The two places where the float      *)
(* arithmetic changes a result, int(amount * 100) and the 0.01 tolerance,  *)
(* are modelled by their IEEE-754 double results (TruncatedAmounts,        *)
(* OneKoboOver).                                                           *)
(***************************************************************************)
EXTENDS Integers, Sequences, FiniteSets, TLC

\* ------------------------------------------------------------------ bounds

NumWallets == 3
NumProcs == 2
NumRefs == 2
MaxTxns == 3
MaxAge == 1

Wallets == 1..NumWallets
Procs == 1..NumProcs
RefBases == 1..NumRefs

\* Wallet numbers a transfer request can name: every wallet's number and one
\* well-formed number that no wallet has.
WalletNumbers == 1..(NumWallets + 1)

\* Request amounts after round(v, 2), in kobo.
Amounts == {200, 201}

\* The amount of a request body, in thousandths, that round(v, 2) turns into
\* a kobo.
Raw(a) == a * 10

\* round(v, 2) of an amount v >= 0 given in thousandths, in kobo.  (For the
\* amounts used here the double nearest to v / 1000 is on the same side of
\* the tie as v.)
Round2(v) == (v + 5) \div 10

\* DepositRequest.amount and TransferRequest.amount: Field(gt=0) and the
\* validator's v <= 0 check, both on the value v of the body; the handler gets
\* round(v, 2).
ValidAmount(v) == v > 0

\* The amounts a transfer request body can carry, in thousandths: those that
\* round to Amounts, one that is not positive, and 0.004.
TransferAmounts == {Raw(a) : a \in Amounts} \cup {0, 4}

\* Authenticated users: the owner of every wallet, and one user whose wallet
\* row is missing (registration commits the user before the wallet).
Users == 1..(NumWallets + 1)

\* string.digits
DigitChars == {"0", "1", "2", "3", "4", "5", "6", "7", "8", "9"}

\* The character of the digit n.
DigitOf(n) == <<"0", "1", "2", "3", "4", "5", "6", "7", "8", "9">>[n + 1]

\* f"{n:010d}" for n < 10, as a sequence of characters.
TenDigits(n) == [i \in 1..10 |-> IF i = 10 THEN DigitOf(n) ELSE "0"]

\* f"WAL{sample_user.id:010d}": the wallet number of a seeded wallet.
FixtureWalletNumber(w) == <<"W", "A", "L">> \o TenDigits(w)

\* TransferRequest.recipient_wallet_number: min_length = max_length = 13 and
\* the pattern ^WAL\d{10}$.
ValidRecipientNumber(s) ==
    /\ Len(s) >= 13 /\ Len(s) <= 13
    /\ SubSeq(s, 1, 3) = <<"W", "A", "L">>
    /\ \A i \in 4..13 : s[i] \in DigitChars

\* data.amount of a webhook payload, in kobo.
PayloadAmounts == {200, 300}

\* wallets.balance at start, in kobo: wallet 1 is funded, a wallet made by
\* registration starts at 0.0.
StartBalance(w) == IF w = 1 THEN 300 ELSE 0

\* days_old values a caller supplies to the bulk-expire endpoint.
DaysOld == 0..MaxAge

\* ----------------------------------------------------------- float results

\* The k (kobo) up to 512 for which int(round(k / 100, 2) * 100) is k - 1.
TruncatedAmounts ==
    {29, 57, 58, 113, 114, 115, 116, 201, 203, 205, 207, 226, 228, 230, 232,
     251, 253, 255, 402, 406, 410, 414, 427, 431, 435, 439, 452, 456, 460,
     464, 477, 481, 485, 489, 502, 506, 510}

\* The k in 190..310 for which abs(k / 100 - (k + 1) / 100) > 0.01 in doubles.
OneKoboOver ==
    {190, 191, 192, 193, 194, 195, 196, 197, 198, 199, 201, 203, 205, 207,
     209, 211, 213, 215, 217, 219, 221, 223, 226, 228, 230, 232, 234, 236,
     238, 240, 242, 244, 246, 248, 251, 253, 255, 257, 259, 261, 263, 265,
     267, 269, 271, 273, 276, 278, 280, 282, 284, 286, 288, 290, 292, 294,
     296, 298, 301, 303, 305, 307, 309}

\* amount_in_kobo = int(amount * 100)
ToKobo(amount) == IF amount \in TruncatedAmounts THEN amount - 1 ELSE amount

\* abs(transaction.amount - amount) > 0.01, with amount = amount_in_kobo / 100
AmountMismatch(txAmount, payKobo) ==
    LET lo == IF txAmount < payKobo THEN txAmount ELSE payKobo
        hi == IF txAmount < payKobo THEN payKobo ELSE txAmount
    IN  \/ hi - lo > 1
        \/ hi - lo = 1 /\ lo \in OneKoboOver

\* ------------------------------------------------------------------- state

VARIABLES
    balance,      \* wallets.balance, committed
    txns,         \* the transactions table, committed, in insertion order
    gateway,      \* the payments Paystack has initialised: reference, kobo
    pc,           \* per request slot: the handler's position
    req,          \* per request slot: the request and the objects it loaded
    resp,         \* per request slot: the answer of the request it has handled
    initBalance,  \* the balances at start (never changes)
    userRows,     \* the users table, committed: the users, by e-mail address
    walletRows,   \* the wallets table's user_id and wallet_number, committed
    apiKeys,      \* the api_keys table, committed, in insertion order
    cred          \* per request slot: what the route's dependency resolved

vars ==
    <<balance, txns, gateway, pc, req, resp, initBalance, userRows,
      walletRows, apiKeys, cred>>

\* The tables and the per-request state of registration and of API keys.
accounts == <<userRows, walletRows, apiKeys, cred>>

NoMeta == [kind |-> "none", expected |-> 0, received |-> 0]

\* f"{reference}", f"{reference}-OUT", f"{reference}-IN"
Ref(base, suffix) == [base |-> base, suffix |-> suffix]

\* A slot's request: its inputs (op, user, ref, amount, to, days, sig, event,
\* confirm) and what its session has loaded (tx and its status, rows, the
\* sender's and the recipient's balance, the recipient); room: the table had
\* room for the request's rows when it began.
NoReq ==
    [op |-> "none", user |-> 0, ref |-> Ref(0, ""), amount |-> 0, to |-> 0,
     days |-> 0, sig |-> "none", event |-> "none", confirm |-> FALSE,
     tx |-> 0, status |-> "none", rows |-> {}, sBal |-> 0, rBal |-> 0,
     rcp |-> 0, room |-> FALSE, key |-> 0, perms |-> {}, raw |-> 0,
     number |-> <<>>]

NoResp == "none"

\* No dependency has resolved a caller for the slot: user 0, key 0.
NoCred == [op |-> "none", user |-> 0, key |-> 0]

TxIds == 1..Len(txns)

\* The lookup without its reference filter: the first row of the table.
FindTxAny(r) == IF TxIds # {} THEN 1 ELSE 0

\* db.query(models.Transaction).filter(reference == r).first(): 0 when absent.
FindTx(r) ==
    IF \E i \in TxIds : txns[i].ref = r
    THEN CHOOSE i \in TxIds : txns[i].ref = r
    ELSE 0

\* The cancel endpoint's query without its wallet_id filter.
FindOwnTxAnyWallet(r, w) == FindTx(r)

\* The same query with the wallet_id filter of the cancel endpoint.
FindOwnTx(r, w) ==
    IF \E i \in TxIds : txns[i].ref = r /\ txns[i].wallet = w
    THEN CHOOSE i \in TxIds : txns[i].ref = r /\ txns[i].wallet = w
    ELSE 0

\* The unique constraint on transactions.reference, as the commit applies it.
RefTaken(r) == \E i \in TxIds : txns[i].ref = r

Init ==
    /\ balance = [w \in Wallets |-> StartBalance(w)]
    /\ initBalance = balance
    /\ txns = <<>>
    /\ gateway = {}
    /\ pc = [p \in Procs |-> "idle"]
    /\ req = [p \in Procs |-> NoReq]
    /\ resp = [p \in Procs |-> NoResp]
    /\ userRows = Wallets
    /\ walletRows =
          {[user |-> w, number |-> FixtureWalletNumber(w)] : w \in Wallets}
    /\ apiKeys = <<>>
    /\ cred = [p \in Procs |-> NoCred]

\* A handler returns or raises: r is what the client is answered.
Finish(p, r, q) ==
    /\ pc' = [pc EXCEPT ![p] = "done"]
    /\ req' = [req EXCEPT ![p] = q]
    /\ resp' = [resp EXCEPT ![p] = r]

\* A handler moves on to its next database round trip.
Goto(p, label, q) ==
    /\ pc' = [pc EXCEPT ![p] = label]
    /\ req' = [req EXCEPT ![p] = q]
    /\ resp' = resp

\* The response has gone out and the session is closed (get_db's finally, the
\* webhook's finally): the slot takes the next request.
Release(p) ==
    /\ pc[p] = "done"
    /\ pc' = [pc EXCEPT ![p] = "idle"]
    /\ req' = [req EXCEPT ![p] = NoReq]
    /\ resp' = [resp EXCEPT ![p] = NoResp]
    /\ cred' = [cred EXCEPT ![p] = NoCred]
    /\ UNCHANGED <<balance, txns, gateway, initBalance, userRows, walletRows,
                   apiKeys>>

\* ----------------------------------------------------------------- deposit

\* models.Transaction(type="deposit", status="pending", ...)
DepositRow(w, amount, r) ==
    [wallet |-> w, type |-> "deposit", amount |-> amount, status |-> "pending",
     ref |-> r, notes |-> <<"deposit">>, meta |-> NoMeta, age |-> 0,
     peer |-> 0]

\* The wallet is credited when the deposit is initiated.
DepositCreateCrediting(p, u, v, base) ==
    LET amount == Round2(v)
        q == [NoReq EXCEPT !.op = "deposit", !.user = u, !.raw = v,
                           !.amount = amount, !.ref = Ref(base, "")]
    IN  /\ pc[p] = "idle"
        /\ RefTaken(Ref(base, "")) \/ Len(txns) < MaxTxns
        /\ IF ~ValidAmount(v)
           THEN /\ Finish(p, "dep_invalid", q)
                /\ UNCHANGED <<txns, balance>>
           ELSE IF RefTaken(Ref(base, ""))
           THEN /\ Finish(p, "dep_integrity_error", q)
                /\ UNCHANGED <<txns, balance>>
           ELSE /\ txns' = Append(txns, DepositRow(u, amount, Ref(base, "")))
                /\ balance' = [balance EXCEPT ![u] = @ + amount]
                /\ Goto(p, "dep_gateway",
                        [q EXCEPT !.tx = Len(txns) + 1, !.status = "pending"])
        /\ UNCHANGED <<gateway, initBalance, accounts>>

\* deposit_funds up to db.refresh(transaction): the request body is validated
\* before the handler runs (422), then the pending row is committed.
\* A reference that is already in the table makes the commit raise
\* IntegrityError, which nothing catches: the request ends with a 500.
\* (MaxTxns stops the requests that would add a row to a full table.)
DepositCreate(p, u, v, base) ==
    LET amount == Round2(v)
        q == [NoReq EXCEPT !.op = "deposit", !.user = u, !.raw = v,
                           !.amount = amount, !.ref = Ref(base, "")]
    IN  /\ pc[p] = "idle"
        /\ RefTaken(Ref(base, "")) \/ Len(txns) < MaxTxns
        /\ IF ~ValidAmount(v)
           THEN /\ Finish(p, "dep_invalid", q)
                /\ UNCHANGED txns
           ELSE IF RefTaken(Ref(base, ""))
           THEN /\ Finish(p, "dep_integrity_error", q)
                /\ UNCHANGED txns
           ELSE /\ txns' = Append(txns, DepositRow(u, amount, Ref(base, "")))
                /\ Goto(p, "dep_gateway",
                        [q EXCEPT !.tx = Len(txns) + 1, !.status = "pending"])
        /\ UNCHANGED <<balance, gateway, initBalance, accounts>>

\* paystack.initialize_transaction returned: Paystack holds the reference with
\* int(amount * 100) kobo to charge, and the authorization URL goes back.
DepositGatewayOk(p) ==
    /\ pc[p] = "dep_gateway"
    /\ gateway' = gateway \cup {[ref |-> req[p].ref,
                                 kobo |-> ToKobo(req[p].amount)]}
    /\ Finish(p, "dep_ok", req[p])
    /\ UNCHANGED <<balance, txns, initBalance, accounts>>

\* The except branch without transaction.status = "failed".
DepositGatewayFailStaysPending(p) ==
    /\ pc[p] = "dep_gateway"
    /\ Finish(p, "dep_gateway_error", req[p])
    /\ UNCHANGED <<balance, txns, gateway, initBalance, accounts>>

\* paystack.initialize_transaction raised: transaction.status = "failed" is
\* flushed as UPDATE transactions SET status = 'failed' WHERE id = ...
DepositGatewayFail(p) ==
    /\ pc[p] = "dep_gateway"
    /\ txns' = [txns EXCEPT ![req[p].tx].status = "failed"]
    /\ Finish(p, "dep_gateway_error", req[p])
    /\ UNCHANGED <<balance, gateway, initBalance, accounts>>

\* The request ends between db.commit() of the pending row and the return of
\* paystack.initialize_transaction, with neither the try body nor the except
\* branch completed: the worker process is stopped (restart, reload, kill)
\* while it waits for Paystack.  The client gets no answer.
DepositAbort(p) ==
    /\ pc[p] = "dep_gateway"
    /\ Finish(p, "dep_aborted", req[p])
    /\ UNCHANGED <<balance, txns, gateway, initBalance, accounts>>

\* ----------------------------------------------------------------- webhook

\* The idempotency check left out.
AlreadyProcessedNever(status) == FALSE

\* The idempotency check: transaction.status == "success".
AlreadyProcessed(status) == status = "success"

\* Every signature is taken for the HMAC.
VerifySignatureAcceptAll(sig) == TRUE

\* PaystackService.verify_webhook_signature: hmac.compare_digest of the
\* HMAC-SHA512 of the raw body under the webhook secret with the header.
\* "hmac" is that digest, "forged" any other non-empty header value.
VerifySignature(sig) == sig = "hmac"

\* The amount check is made before the idempotency check.
WebhookReceiveAmountFirst(p, sig, event, base, kobo) ==
    LET r == Ref(base, "")
        tx == FindTx(r)
        q == [NoReq EXCEPT !.op = "webhook", !.sig = sig, !.event = event]
        q2 == [q EXCEPT !.ref = r, !.amount = kobo, !.tx = tx,
                        !.status = IF tx = 0 THEN "none" ELSE txns[tx].status]
    IN  /\ pc[p] = "idle"
        /\ (\E g \in gateway : g.ref = r) \/ ~RefTaken(r)
        /\ IF sig = "missing" THEN Finish(p, "wh_missing_signature", q)
           ELSE IF ~VerifySignature(sig) THEN Finish(p, "wh_bad_signature", q)
           ELSE IF event = "unparsable" THEN Finish(p, "wh_bad_json", q)
           ELSE IF event # "charge.success"
                THEN Finish(p, "wh_ignored_event", q)
           ELSE IF kobo = 0
                THEN Finish(p, "wh_missing_fields",
                            [q EXCEPT !.ref = r, !.amount = kobo])
           ELSE IF tx = 0 THEN Finish(p, "wh_ignored_unknown", q2)
           ELSE IF AmountMismatch(txns[tx].amount, kobo)
                THEN Goto(p, "wh_fail", q2)
           ELSE IF AlreadyProcessed(txns[tx].status)
                THEN Finish(p, "wh_already_processed", q2)
           ELSE Goto(p, "wh_wallet", q2)
        /\ UNCHANGED <<balance, txns, gateway, initBalance, accounts>>

\* paystack_webhook up to the amount check (one SELECT on transactions).
\* sig: the X-Paystack-Signature header ("missing": absent or empty).
\* event: payload.event ("unparsable": the body is not JSON).
\* kobo: data.amount (0: absent or zero).
\* Paystack reports a charge only for a reference it has initialised, or for a
\* reference this system does not know.
WebhookReceive(p, sig, event, base, kobo) ==
    LET r == Ref(base, "")
        tx == FindTx(r)
        q == [NoReq EXCEPT !.op = "webhook", !.sig = sig, !.event = event]
        q2 == [q EXCEPT !.ref = r, !.amount = kobo, !.tx = tx,
                        !.status = IF tx = 0 THEN "none" ELSE txns[tx].status]
    IN  /\ pc[p] = "idle"
        /\ (\E g \in gateway : g.ref = r) \/ ~RefTaken(r)
        /\ IF sig = "missing" THEN Finish(p, "wh_missing_signature", q)
           ELSE IF ~VerifySignature(sig) THEN Finish(p, "wh_bad_signature", q)
           ELSE IF event = "unparsable" THEN Finish(p, "wh_bad_json", q)
           ELSE IF event # "charge.success"
                THEN Finish(p, "wh_ignored_event", q)
           ELSE IF kobo = 0
                THEN Finish(p, "wh_missing_fields",
                            [q EXCEPT !.ref = r, !.amount = kobo])
           ELSE IF tx = 0 THEN Finish(p, "wh_ignored_unknown", q2)
           ELSE IF AlreadyProcessed(txns[tx].status)
                THEN Finish(p, "wh_already_processed", q2)
           ELSE IF AmountMismatch(txns[tx].amount, kobo)
                THEN Goto(p, "wh_fail", q2)
           ELSE Goto(p, "wh_wallet", q2)
        /\ UNCHANGED <<balance, txns, gateway, initBalance, accounts>>

\* The amount-mismatch branch without its meta_data.
WebhookMismatchCommitNoRecord(p) ==
    /\ pc[p] = "wh_fail"
    /\ txns' = [txns EXCEPT ![req[p].tx].status = "failed"]
    /\ Finish(p, "wh_amount_mismatch", req[p])
    /\ UNCHANGED <<balance, gateway, initBalance, accounts>>

\* The amount-mismatch branch: status and meta_data are flushed and committed,
\* then the 400 is raised.
WebhookMismatchCommit(p) ==
    LET tx == req[p].tx
    IN  /\ pc[p] = "wh_fail"
        /\ txns' = [txns EXCEPT
                      ![tx].status = "failed",
                      ![tx].meta = [kind |-> "mismatch",
                                    expected |-> txns[tx].amount,
                                    received |-> req[p].amount]]
        /\ Finish(p, "wh_amount_mismatch", req[p])
        /\ UNCHANGED <<balance, gateway, initBalance, accounts>>

\* db.query(models.Wallet).filter(id == transaction.wallet_id).first()
\* (wallets are never deleted, so the row is always there).
WebhookLoadWallet(p) ==
    /\ pc[p] = "wh_wallet"
    /\ Goto(p, "wh_commit",
            [req[p] EXCEPT !.user = txns[req[p].tx].wallet,
                           !.sBal = balance[txns[req[p].tx].wallet]])
    /\ UNCHANGED <<balance, txns, gateway, initBalance, accounts>>

\* What settlement adds to the loaded balance: wallet.balance += amount, where
\* amount is the payload's amount_in_kobo / 100.
CreditedAmount(storedAmount, payKobo) == payKobo

\* Settlement also writes the payload's amount into the row.
WebhookCommitRewritingAmount(p) ==
    LET tx == req[p].tx
        w == req[p].user
    IN  /\ pc[p] = "wh_commit"
        /\ balance' = [balance EXCEPT
                         ![w] = req[p].sBal
                                + CreditedAmount(txns[tx].amount, req[p].amount)]
        /\ txns' = [txns EXCEPT
                      ![tx].status = "success",
                      ![tx].amount = req[p].amount,
                      ![tx].meta = [kind |-> "paystack", expected |-> 0,
                                    received |-> 0]]
        /\ Finish(p, "wh_success", req[p])
        /\ UNCHANGED <<gateway, initBalance, accounts>>

\* The credit is committed without the status and the metadata.
WebhookCommitCreditOnly(p) ==
    /\ pc[p] = "wh_commit"
    /\ balance' = [balance EXCEPT
                     ![req[p].user] =
                        req[p].sBal
                        + CreditedAmount(txns[req[p].tx].amount, req[p].amount)]
    /\ Finish(p, "wh_success", req[p])
    /\ UNCHANGED <<txns, gateway, initBalance, accounts>>

\* wallet.balance += amount; transaction.status = "success"; meta_data; commit.
WebhookCommit(p) ==
    LET tx == req[p].tx
        w == req[p].user
    IN  /\ pc[p] = "wh_commit"
        /\ balance' = [balance EXCEPT
                         ![w] = req[p].sBal
                                + CreditedAmount(txns[tx].amount, req[p].amount)]
        /\ txns' = [txns EXCEPT
                      ![tx].status = "success",
                      ![tx].meta = [kind |-> "paystack", expected |-> 0,
                                    received |-> 0]]
        /\ Finish(p, "wh_success", req[p])
        /\ UNCHANGED <<gateway, initBalance, accounts>>

\* ---------------------------------------------------------------- transfer

\* The balance check left out.
InsufficientBalanceNever(bal, amount) == FALSE

\* sender_wallet.balance < transfer_data.amount
InsufficientBalance(bal, amount) == bal < amount

\* The sender is not debited.
DebitNothing(loaded, amount) == loaded

\* sender_wallet.balance -= amount / recipient_wallet.balance += amount, on
\* the balances the session loaded.
Debit(loaded, amount) == loaded - amount

Credit(loaded, amount) == loaded + amount

\* The two rows are created pending, to be settled later.
TransferRowsPending(s, r, amount, base) ==
    <<[wallet |-> s, type |-> "transfer_out", amount |-> amount,
       status |-> "pending", ref |-> Ref(base, "-OUT"),
       notes |-> <<"transfer">>, meta |-> NoMeta, age |-> 0, peer |-> r],
      [wallet |-> r, type |-> "transfer_in", amount |-> amount,
       status |-> "pending", ref |-> Ref(base, "-IN"),
       notes |-> <<"transfer">>, meta |-> NoMeta, age |-> 0, peer |-> s]>>

\* Only the debit row is added to the session.
TransferRowsDebitOnly(s, r, amount, base) ==
    <<[wallet |-> s, type |-> "transfer_out", amount |-> amount,
       status |-> "success", ref |-> Ref(base, "-OUT"),
       notes |-> <<"transfer">>, meta |-> NoMeta, age |-> 0, peer |-> r]>>

\* The two rows of a transfer: debit_transaction, credit_transaction.
TransferRows(s, r, amount, base) ==
    <<[wallet |-> s, type |-> "transfer_out", amount |-> amount,
       status |-> "success", ref |-> Ref(base, "-OUT"),
       notes |-> <<"transfer">>, meta |-> NoMeta, age |-> 0, peer |-> r],
      [wallet |-> r, type |-> "transfer_in", amount |-> amount,
       status |-> "success", ref |-> Ref(base, "-IN"),
       notes |-> <<"transfer">>, meta |-> NoMeta, age |-> 0, peer |-> s]>>

\* The table has room for the two rows of a transfer, or holds the rows of an
\* earlier transfer, whose references a generated reference can collide with.
TableHasRoomOrCollides ==
    \/ Len(txns) + 2 <= MaxTxns
    \/ \E i \in TxIds : txns[i].ref.suffix = "-OUT"

\* The recipient is looked up, and the self-transfer check made, before the
\* sender's balance is checked.
TransferBeginRecipientFirst(p, u, to, v) ==
    LET amount == Round2(v)
        q == [NoReq EXCEPT !.op = "transfer", !.user = u, !.to = to,
                           !.raw = v, !.amount = amount,
                           !.sBal = IF u \in Wallets THEN balance[u] ELSE 0]
    IN  /\ pc[p] = "idle"
        /\ IF ~ValidAmount(v) THEN Finish(p, "tr_invalid", q)
           ELSE IF u \notin Wallets THEN Finish(p, "tr_sender_not_found", q)
           ELSE IF to \notin Wallets
                THEN Finish(p, "tr_recipient_not_found", q)
           ELSE IF to = u THEN Finish(p, "tr_self", q)
           ELSE IF InsufficientBalance(balance[u], amount)
                THEN Finish(p, "tr_insufficient", q)
           ELSE /\ TableHasRoomOrCollides
                /\ Goto(p, "tr_recipient",
                        [q EXCEPT !.room = Len(txns) + 2 <= MaxTxns])
        /\ UNCHANGED <<balance, txns, gateway, initBalance, accounts>>

\* transfer_funds up to the balance check: the request body is validated
\* before the handler runs (422), then one SELECT on wallets for the sender.
\* (MaxTxns stops the requests that could only add rows to a full table.)
TransferBegin(p, u, to, v) ==
    LET amount == Round2(v)
        q == [NoReq EXCEPT !.op = "transfer", !.user = u, !.to = to,
                           !.raw = v, !.amount = amount,
                           !.sBal = IF u \in Wallets THEN balance[u] ELSE 0]
    IN  /\ pc[p] = "idle"
        /\ IF ~ValidAmount(v) THEN Finish(p, "tr_invalid", q)
           ELSE IF u \notin Wallets THEN Finish(p, "tr_sender_not_found", q)
           ELSE IF InsufficientBalance(balance[u], amount)
                THEN Finish(p, "tr_insufficient", q)
           ELSE /\ TableHasRoomOrCollides
                /\ Goto(p, "tr_recipient",
                        [q EXCEPT !.room = Len(txns) + 2 <= MaxTxns])
        /\ UNCHANGED <<balance, txns, gateway, initBalance, accounts>>

\* The wallet a recipient number resolves to (Wallet.wallet_number ==
\* recipient_wallet_number), as TransferBegin takes it: the owner of the
\* wallet with that number, or the number that no wallet has.
RecipientWithNumber(s) ==
    IF \E w \in walletRows : w.number = s /\ w.user \in Wallets
    THEN (CHOOSE w \in walletRows : w.number = s /\ w.user \in Wallets).user
    ELSE NumWallets + 1

\* POST /wallet/transfer with recipient number s and amount v: the body is
\* validated before the handler runs, and a number that does not match is
\* answered 422.
TransferRequest(p, u, s, v) ==
    IF ValidRecipientNumber(s)
    THEN TransferBegin(p, u, RecipientWithNumber(s), v)
    ELSE /\ pc[p] = "idle"
         /\ Finish(p, "tr_unprocessable",
                   [NoReq EXCEPT !.op = "transfer", !.user = u, !.number = s,
                                 !.raw = v, !.amount = Round2(v),
                                 !.sBal = IF u \in Wallets THEN balance[u]
                                          ELSE 0])
         /\ UNCHANGED <<balance, txns, gateway, initBalance, accounts>>

\* The sender is debited, and the debit committed, before the recipient is
\* looked up.
TransferFindRecipientDebitFirst(p) ==
    /\ pc[p] = "tr_recipient"
    /\ balance' = [balance EXCEPT
                     ![req[p].user] = req[p].sBal - req[p].amount]
    /\ IF req[p].to \notin Wallets
       THEN Finish(p, "tr_recipient_not_found", req[p])
       ELSE IF req[p].to = req[p].user
       THEN Finish(p, "tr_self", [req[p] EXCEPT !.rcp = req[p].to])
       ELSE Goto(p, "tr_commit",
                 [req[p] EXCEPT !.rcp = req[p].to,
                                !.rBal = balance[req[p].to]])
    /\ UNCHANGED <<txns, gateway, initBalance, accounts>>

\* The recipient lookup by wallet number and the self-transfer check.
TransferFindRecipient(p) ==
    /\ pc[p] = "tr_recipient"
    /\ IF req[p].to \notin Wallets
       THEN Finish(p, "tr_recipient_not_found", req[p])
       ELSE IF req[p].to = req[p].user
       THEN Finish(p, "tr_self", [req[p] EXCEPT !.rcp = req[p].to])
       ELSE Goto(p, "tr_commit",
                 [req[p] EXCEPT !.rcp = req[p].to,
                                !.rBal = balance[req[p].to]])
    /\ UNCHANGED <<balance, txns, gateway, initBalance, accounts>>

\* The except branch without db.rollback(): the balances the flush had written
\* stay when the insert of a row fails.
TransferCommitNoRollback(p, base) ==
    LET s == req[p].user
        r == req[p].rcp
        a == req[p].amount
    IN  /\ pc[p] = "tr_commit"
        /\ \/ RefTaken(Ref(base, "-OUT")) \/ RefTaken(Ref(base, "-IN"))
           \/ req[p].room
        /\ balance' = [balance EXCEPT
                         ![s] = Debit(req[p].sBal, a),
                         ![r] = Credit(req[p].rBal, a)]
        /\ IF RefTaken(Ref(base, "-OUT")) \/ RefTaken(Ref(base, "-IN"))
           THEN /\ Finish(p, "tr_failed", req[p])
                /\ UNCHANGED txns
           ELSE /\ txns' = txns \o TransferRows(s, r, a, base)
                /\ Finish(p, "tr_success", [req[p] EXCEPT !.ref = Ref(base, "")])
        /\ UNCHANGED <<gateway, initBalance, accounts>>

\* The try block: both balances and both rows go out in one flush + COMMIT.
\* A reference that is already in the table raises IntegrityError; the except
\* branch rolls the session back and answers "Transfer failed".
\* (A request that began on a full table is followed only to a collision.)
TransferCommit(p, base) ==
    LET s == req[p].user
        r == req[p].rcp
        a == req[p].amount
    IN  /\ pc[p] = "tr_commit"
        /\ \/ RefTaken(Ref(base, "-OUT")) \/ RefTaken(Ref(base, "-IN"))
           \/ req[p].room
        /\ IF RefTaken(Ref(base, "-OUT")) \/ RefTaken(Ref(base, "-IN"))
           THEN /\ Finish(p, "tr_failed", req[p])
                /\ UNCHANGED <<balance, txns>>
           ELSE /\ balance' = [balance EXCEPT
                                 ![s] = Debit(req[p].sBal, a),
                                 ![r] = Credit(req[p].rBal, a)]
                /\ txns' = txns \o TransferRows(s, r, a, base)
                /\ Finish(p, "tr_success", [req[p] EXCEPT !.ref = Ref(base, "")])
        /\ UNCHANGED <<gateway, initBalance, accounts>>

\* ---------------------------------------------------- deposit status query

\* What paystack.verify_transaction can give for a reference: data.status of
\* the payment, or an exception ("error": HTTP error, status false).
GatewayReports == {"success", "abandoned", "error"}

\* The status query settles the deposit itself when Paystack reports success.
StatusGatewaySettling(p, report) ==
    LET tx == req[p].tx
        w == txns[tx].wallet
    IN  /\ pc[p] = "st_gateway"
        /\ report = "error" \/ \E g \in gateway : g.ref = req[p].ref
        /\ IF report = "success" /\ txns[tx].status = "pending"
           THEN /\ balance' = [balance EXCEPT ![w] = @ + txns[tx].amount]
                /\ txns' = [txns EXCEPT ![tx].status = "success"]
           ELSE UNCHANGED <<balance, txns>>
        /\ IF report = "error"
           THEN Finish(p, "st_gateway_error", [req[p] EXCEPT !.event = report])
           ELSE Finish(p, "st_ok", [req[p] EXCEPT !.event = report])
        /\ UNCHANGED <<gateway, initBalance, accounts>>

\* check_deposit_status up to the call of Paystack: one SELECT on
\* transactions by reference.  html: the Accept header has text/html.
StatusBegin(p, base, html) ==
    LET r == Ref(base, "")
        tx == FindTx(r)
        q == [NoReq EXCEPT !.op = "status", !.ref = r, !.tx = tx,
                           !.status = IF tx = 0 THEN "none"
                                      ELSE txns[tx].status]
    IN  /\ pc[p] = "idle"
        /\ IF tx = 0 THEN Finish(p, "st_not_found", q)
           ELSE IF html THEN Finish(p, "st_html", q)
           ELSE Goto(p, "st_gateway", q)
        /\ UNCHANGED <<balance, txns, gateway, initBalance, accounts>>

\* paystack.verify_transaction returned or raised: the JSON answer carries
\* Paystack's status and the local status the SELECT had loaded.  Paystack
\* reports a payment only for a reference it has initialised.
StatusGateway(p, report) ==
    /\ pc[p] = "st_gateway"
    /\ report = "error" \/ \E g \in gateway : g.ref = req[p].ref
    /\ IF report = "error"
       THEN Finish(p, "st_gateway_error", [req[p] EXCEPT !.event = report])
       ELSE Finish(p, "st_ok", [req[p] EXCEPT !.event = report])
    /\ UNCHANGED <<balance, txns, gateway, initBalance, accounts>>

\* ------------------------------------------------- pending-transaction ops

\* transaction.status = "failed"; transaction.description += note, for the
\* rows a handler loaded.  A row is loaded only while it is pending, and a
\* pending row still has the description it was created with.
FailRows(rows, note) ==
    [i \in TxIds |->
        IF i \in rows
        THEN [txns[i] EXCEPT !.status = "failed",
                             !.notes = <<txns[i].notes[1], note>>]
        ELSE txns[i]]

\* The cancel endpoint without its two status checks.
CancelBeginNoStatusCheck(p, u, base) ==
    LET r == Ref(base, "")
        tx == FindOwnTx(r, u)
        q == [NoReq EXCEPT !.op = "cancel", !.user = u, !.ref = r, !.tx = tx,
                           !.status = IF tx = 0 THEN "none"
                                      ELSE txns[tx].status]
    IN  /\ pc[p] = "idle"
        /\ IF tx = 0 THEN Finish(p, "cancel_not_found", q)
           ELSE Goto(p, "cancel_commit", [q EXCEPT !.rows = {tx}])
        /\ UNCHANGED <<balance, txns, gateway, initBalance, accounts>>

\* cancel_pending_transaction up to the status checks.
CancelBegin(p, u, base) ==
    LET r == Ref(base, "")
        tx == FindOwnTx(r, u)
        q == [NoReq EXCEPT !.op = "cancel", !.user = u, !.ref = r, !.tx = tx,
                           !.status = IF tx = 0 THEN "none"
                                      ELSE txns[tx].status]
    IN  /\ pc[p] = "idle"
        /\ IF tx = 0 THEN Finish(p, "cancel_not_found", q)
           ELSE IF txns[tx].status = "success"
                THEN Finish(p, "cancel_rejected_success", q)
           ELSE IF txns[tx].status = "failed"
                THEN Finish(p, "cancel_rejected_failed", q)
           ELSE Goto(p, "cancel_commit", [q EXCEPT !.rows = {tx}])
        /\ UNCHANGED <<balance, txns, gateway, initBalance, accounts>>

CancelCommit(p) ==
    /\ pc[p] = "cancel_commit"
    /\ txns' = FailRows(req[p].rows, "cancelled")
    /\ Finish(p, "cancel_ok", req[p])
    /\ UNCHANGED <<balance, gateway, initBalance, accounts>>

\* The bulk expire without the created_at filter of its query.
ExpireBeginIgnoringAge(p, u, days) ==
    LET old == {i \in TxIds : /\ txns[i].wallet = u
                              /\ txns[i].status = "pending"}
        q == [NoReq EXCEPT !.op = "expire", !.user = u, !.days = days]
    IN  /\ pc[p] = "idle"
        /\ IF days < 1 THEN Finish(p, "expire_bad_days", q)
           ELSE IF old = {} THEN Finish(p, "expire_none", q)
           ELSE Goto(p, "expire_commit", [q EXCEPT !.rows = old])
        /\ UNCHANGED <<balance, txns, gateway, initBalance, accounts>>

\* clear_old_pending_transactions up to the query for old pending rows.
ExpireBegin(p, u, days) ==
    LET old == {i \in TxIds : /\ txns[i].wallet = u
                              /\ txns[i].status = "pending"
                              /\ txns[i].age >= days}
        q == [NoReq EXCEPT !.op = "expire", !.user = u, !.days = days]
    IN  /\ pc[p] = "idle"
        /\ IF days < 1 THEN Finish(p, "expire_bad_days", q)
           ELSE IF old = {} THEN Finish(p, "expire_none", q)
           ELSE Goto(p, "expire_commit", [q EXCEPT !.rows = old])
        /\ UNCHANGED <<balance, txns, gateway, initBalance, accounts>>

ExpireCommit(p) ==
    /\ pc[p] = "expire_commit"
    /\ txns' = FailRows(req[p].rows, "expired")
    /\ Finish(p, "expire_ok", req[p])
    /\ UNCHANGED <<balance, gateway, initBalance, accounts>>

\* clear_all_pending_transactions up to the query for pending rows.
ClearAllBegin(p, u, confirm) ==
    LET pending == {i \in TxIds : /\ txns[i].wallet = u
                                  /\ txns[i].status = "pending"}
        q == [NoReq EXCEPT !.op = "clear", !.user = u, !.confirm = confirm]
    IN  /\ pc[p] = "idle"
        /\ IF ~confirm THEN Finish(p, "clear_unconfirmed", q)
           ELSE IF pending = {} THEN Finish(p, "clear_none", q)
           ELSE Goto(p, "clear_commit", [q EXCEPT !.rows = pending])
        /\ UNCHANGED <<balance, txns, gateway, initBalance, accounts>>

\* Clear-all takes the cleared amounts out of the wallet.
ClearAllCommitDebiting(p) ==
    /\ pc[p] = "clear_commit"
    /\ txns' = FailRows(req[p].rows, "bulk_cleared")
    /\ balance' = [balance EXCEPT ![req[p].user] = 0]
    /\ Finish(p, "clear_ok", req[p])
    /\ UNCHANGED <<gateway, initBalance, accounts>>

ClearAllCommit(p) ==
    /\ pc[p] = "clear_commit"
    /\ txns' = FailRows(req[p].rows, "bulk_cleared")
    /\ Finish(p, "clear_ok", req[p])
    /\ UNCHANGED <<balance, gateway, initBalance, accounts>>

\* A day passes.  A row's age is the number of whole days that
\* utcnow() - created_at has gone beyond (age = k when the difference is in
\* (k, k + 1] days), so created_at < utcnow() - timedelta(days = d) is age >= d.
\* Ages stop at MaxAge, which does not change that comparison for any d in
\* DaysOld.
Tick ==
    /\ \E i \in TxIds : txns[i].age < MaxAge
    /\ txns' = [i \in TxIds |->
                  [txns[i] EXCEPT !.age = IF @ < MaxAge THEN @ + 1 ELSE @]]
    /\ UNCHANGED <<balance, gateway, pc, req, resp, initBalance, accounts>>

\* ------------------------------------------------------------- registration

\* New e-mail addresses Google can vouch for, beyond the owners of Wallets.
NumNewUsers == 2

\* user_info.get('email') of a callback: 0 when Google gave no user info or no
\* e-mail, else a user's address.
Emails == 0..(NumWallets + NumNewUsers)

\* What Wallet.generate_wallet_number can return: ten random digits, which
\* some wallet may already have (a few of the 10^10 strings).
GeneratedWalletNumbers == {TenDigits(n) : n \in 1..(NumWallets + NumNewUsers)}

\* user.wallet: the wallet rows of user u.
WalletsOf(u) == {w \in walletRows : w.user = u}

\* wallets.wallet_number is unique.
WalletNumberTaken(n) == \E w \in walletRows : w.number = n

\* GET /auth/google/callback up to the user lookup.  Without an e-mail the
\* HTTPException is caught by the handler's own except and answered as an
\* error; a known user is logged in; for a new one the handler goes on.
CallbackBegin(p, e) ==
    LET q == [NoReq EXCEPT !.op = "callback", !.user = e]
    IN  /\ pc[p] = "idle"
        /\ IF e = 0 THEN Finish(p, "auth_error", q)
           ELSE IF e \in userRows THEN Finish(p, "auth_ok", q)
           ELSE Goto(p, "cb_user", q)
        /\ UNCHANGED <<balance, txns, gateway, initBalance, accounts>>

\* db.add(user); db.commit(): users.email is unique, so the commit fails when
\* another callback has registered the address meanwhile.
CallbackCommitUser(p) ==
    /\ pc[p] = "cb_user"
    /\ IF req[p].user \in userRows
       THEN /\ Finish(p, "auth_error", req[p])
            /\ UNCHANGED userRows
       ELSE /\ userRows' = userRows \cup {req[p].user}
            /\ Goto(p, "cb_wallet", req[p])
    /\ UNCHANGED <<balance, txns, gateway, initBalance, walletRows, apiKeys,
                   cred>>

\* db.add(wallet); db.commit() with a generated number n: the commit fails on
\* a number some wallet has (and on a second wallet for the user), which the
\* handler's except answers as an error.
CallbackCommitWallet(p, n) ==
    /\ pc[p] = "cb_wallet"
    /\ IF WalletNumberTaken(n) \/ WalletsOf(req[p].user) # {}
       THEN /\ Finish(p, "auth_error", req[p])
            /\ UNCHANGED walletRows
       ELSE /\ walletRows' =
                  walletRows \cup {[user |-> req[p].user, number |-> n]}
            /\ Finish(p, "auth_ok", req[p])
    /\ UNCHANGED <<balance, txns, gateway, initBalance, userRows, apiKeys,
                   cred>>

\* ----------------------------------------------------------------- API keys

\* The rows the api_keys table holds at most.
MaxKeys == 2

\* active_keys_count >= 5
KeyLimit == 5

KeyIds == 1..Len(apiKeys)

\* X-API-Key values a request can carry: 0 for no header, the plain key of a
\* row, or one key that no row has.
PresentedKeys == 0..(MaxKeys + 1)

\* The permission lists APIKeyCreate.validate_permissions lets through, as
\* sets: non-empty, over read, deposit and transfer.
KeyPermissions == {{"read"}, {"read", "deposit", "transfer"}}

\* The count of the user's active keys.
ActiveKeysCount(u) ==
    Cardinality({k \in KeyIds : apiKeys[k].user = u /\ apiKeys[k].active})

\* POST /keys up to the limit check.
CreateKeyBegin(p, u, perms) ==
    LET q == [NoReq EXCEPT !.op = "create_key", !.user = u, !.perms = perms]
    IN  /\ pc[p] = "idle"
        /\ IF ActiveKeysCount(u) >= KeyLimit
           THEN Finish(p, "key_limit", q)
           ELSE Goto(p, "key_insert", q)
        /\ UNCHANGED <<balance, txns, gateway, initBalance, accounts>>

\* db.add(api_key); db.commit(): the key is active and expires in the future.
\* A row's ttl is the sign of expires_at - now: 1 while expires_at is in the
\* future, 0 at the instant now = expires_at, -1 once it is in the past.
CreateKeyCommit(p) ==
    /\ pc[p] = "key_insert"
    /\ apiKeys' = Append(apiKeys, [user |-> req[p].user,
                                   perms |-> req[p].perms,
                                   active |-> TRUE, ttl |-> 1])
    /\ Finish(p, "key_created", [req[p] EXCEPT !.key = Len(apiKeys) + 1])
    /\ UNCHANGED <<balance, txns, gateway, initBalance, userRows, walletRows,
                   cred>>

\* rollover_api_key without the expiry check.
RolloverBeginUnexpired(p, u, k) ==
    LET q == [NoReq EXCEPT !.op = "rollover", !.user = u, !.key = k]
    IN  /\ pc[p] = "idle"
        /\ IF k \notin KeyIds \/ apiKeys[k].user # u
           THEN Finish(p, "key_not_found", q)
           ELSE IF ActiveKeysCount(u) >= KeyLimit
           THEN Finish(p, "key_limit", q)
           ELSE Goto(p, "roll_commit", q)
        /\ UNCHANGED <<balance, txns, gateway, initBalance, accounts>>

\* POST /keys/rollover up to the limit check, for key id k: the lookup by id
\* and owner, the expiry check, the count of the caller's active keys.
RolloverBegin(p, u, k) ==
    LET q == [NoReq EXCEPT !.op = "rollover", !.user = u, !.key = k]
    IN  /\ pc[p] = "idle"
        /\ IF k \notin KeyIds \/ apiKeys[k].user # u
           THEN Finish(p, "key_not_found", q)
           ELSE IF apiKeys[k].ttl > 0 THEN Finish(p, "key_not_expired", q)
           ELSE IF ActiveKeysCount(u) >= KeyLimit
           THEN Finish(p, "key_limit", q)
           ELSE Goto(p, "roll_commit", q)
        /\ UNCHANGED <<balance, txns, gateway, initBalance, accounts>>

\* db.add(new_api_key); expired_key.is_active = False; db.commit(): one
\* commit adds the new key, active, with the old key's permissions and a
\* new expiry in the future, and deactivates the old key.
RolloverCommit(p) ==
    LET k == req[p].key
    IN  /\ pc[p] = "roll_commit"
        /\ apiKeys' = Append([apiKeys EXCEPT ![k].active = FALSE],
                             [user |-> req[p].user,
                              perms |-> apiKeys[k].perms,
                              active |-> TRUE, ttl |-> 1])
        /\ Finish(p, "key_rolled_over", req[p])
        /\ UNCHANGED <<balance, txns, gateway, initBalance, userRows,
                       walletRows, cred>>

\* DELETE /keys/{key_id} up to the lookup by id and owner.
DeleteKeyBegin(p, u, k) ==
    LET q == [NoReq EXCEPT !.op = "delete_key", !.user = u, !.key = k]
    IN  /\ pc[p] = "idle"
        /\ IF k \notin KeyIds \/ apiKeys[k].user # u
           THEN Finish(p, "key_not_found", q)
           ELSE Goto(p, "del_commit", q)
        /\ UNCHANGED <<balance, txns, gateway, initBalance, accounts>>

\* api_key.is_active = False; db.commit()
DeleteKeyCommit(p) ==
    /\ pc[p] = "del_commit"
    /\ apiKeys' = [apiKeys EXCEPT ![req[p].key].active = FALSE]
    /\ Finish(p, "key_deleted", req[p])
    /\ UNCHANGED <<balance, txns, gateway, initBalance, userRows, walletRows,
                   cred>>

\* Time reaches, and then passes, the expires_at of key k.
KeyExpire(k) ==
    /\ k \in KeyIds
    /\ apiKeys[k].ttl > -1
    /\ apiKeys' = [apiKeys EXCEPT ![k].ttl = @ - 1]
    /\ UNCHANGED <<balance, txns, gateway, pc, req, resp, initBalance,
                   userRows, walletRows, cred>>

\* get_current_service without the is_active filter.
GetCurrentServiceAnyRow(k) ==
    IF k \notin KeyIds THEN 0
    ELSE IF apiKeys[k].ttl < 0 THEN 0
    ELSE IF apiKeys[k].user \notin userRows THEN 0
    ELSE apiKeys[k].user

\* get_current_service: the user of the active key that the presented key
\* verifies against and whose expires_at is not before now, or 0 for its
\* 401s.
GetCurrentService(k) ==
    IF k \notin KeyIds THEN 0
    ELSE IF ~apiKeys[k].active THEN 0
    ELSE IF apiKeys[k].ttl < 0 THEN 0
    ELSE IF apiKeys[k].user \notin userRows THEN 0
    ELSE apiKeys[k].user

\* require_permission(permission)'s permission_checker: the key's user when
\* the key's list holds the permission, or 0 for its 401s and its 403.
PermissionChecker(k, permission) ==
    IF GetCurrentService(k) = 0 THEN 0
    ELSE IF permission \notin apiKeys[k].perms THEN 0
    ELSE GetCurrentService(k)

\* get_current_user_or_service for a bearer token of user jwt (0: none, or
\* one that does not verify) and a presented key k: the token first, then the
\* key; NoCred for its 401.
GetCurrentUserOrService(jwt, k) ==
    IF jwt # 0 /\ jwt \in userRows
    THEN [op |-> "none", user |-> jwt, key |-> 0]
    ELSE IF k # 0 /\ GetCurrentService(k) # 0
    THEN [op |-> "none", user |-> GetCurrentService(k), key |-> k]
    ELSE NoCred

\* The wallet routes' operations.
WalletOps == {"balance", "deposit", "transfer"}

\* A request for a wallet route arrives: its Depends(
\* get_current_user_or_service) is resolved before the handler is called.
Authenticate(p, jwt, k, op) ==
    LET c == GetCurrentUserOrService(jwt, k)
    IN  /\ pc[p] = "idle"
        /\ cred[p] = NoCred
        /\ IF c.user = 0
           THEN /\ Finish(p, "unauthorized",
                          [NoReq EXCEPT !.op = op, !.key = k])
                /\ UNCHANGED cred
           ELSE /\ cred' = [cred EXCEPT ![p] = [c EXCEPT !.op = op]]
                /\ UNCHANGED <<pc, req, resp>>
        /\ UNCHANGED <<balance, txns, gateway, initBalance, userRows,
                       walletRows, apiKeys>>

\* GET /wallet/balance for user u.
GetBalance(p, u) ==
    LET q == [NoReq EXCEPT !.op = "balance", !.user = u]
    IN  /\ pc[p] = "idle"
        /\ IF u \notin Wallets THEN Finish(p, "bal_not_found", q)
           ELSE Finish(p, "bal_ok", [q EXCEPT !.sBal = balance[u]])
        /\ UNCHANGED <<balance, txns, gateway, initBalance, accounts>>

\* No request is being handled.
Quiet == \A q \in Procs : pc[q] = "idle"

\* What generate_transaction_reference can return, up to the naming of the
\* references: one that some row with this suffix already has, or the first
\* one that no such row has.
GeneratedBases(suffix) ==
    {b \in RefBases :
        \A c \in 1..(b - 1) : RefTaken(Ref(c, suffix))}

\* The webhook deliveries: <<signature, event, reference, amount>>.  What
\* follows a bad signature, an unparsable body or another event is never read.
WebhookInputs ==
    {<<"missing", "charge.success", 1, 200>>,
     <<"forged", "charge.success", 1, 200>>,
     <<"hmac", "unparsable", 1, 200>>,
     <<"hmac", "other", 1, 200>>,
     <<"hmac", "charge.success", 1, 0>>}
    \cup {<<"hmac", "charge.success", b, k>> :
             b \in RefBases, k \in PayloadAmounts}

\* One worker process: main.py runs a single uvicorn process, and a handler is
\* a coroutine that makes only blocking calls once it has its session, so the
\* event loop runs it to its response before it takes up another request.
Next ==
    \/ \E u \in Wallets, a \in Amounts, b \in GeneratedBases("") :
          Quiet /\ DepositCreate(1, u, Raw(a), b)
    \/ DepositGatewayOk(1)
    \/ DepositGatewayFail(1)
    \/ \E i \in WebhookInputs :
          Quiet /\ WebhookReceive(1, i[1], i[2], i[3], i[4])
    \/ WebhookMismatchCommit(1)
    \/ WebhookLoadWallet(1)
    \/ WebhookCommit(1)
    \/ \E u \in Wallets, to \in WalletNumbers, a \in Amounts :
          Quiet /\ TransferBegin(1, u, to, Raw(a))
    \/ TransferFindRecipient(1)
    \/ \E b \in GeneratedBases("-OUT") : TransferCommit(1, b)
    \/ \E u \in Wallets, b \in RefBases : Quiet /\ CancelBegin(1, u, b)
    \/ CancelCommit(1)
    \/ \E u \in Wallets, d \in DaysOld : Quiet /\ ExpireBegin(1, u, d)
    \/ ExpireCommit(1)
    \/ \E u \in Wallets, c \in BOOLEAN : Quiet /\ ClearAllBegin(1, u, c)
    \/ ClearAllCommit(1)
    \/ Release(1)
    \/ Quiet /\ Tick

Spec == Init /\ [][Next]_vars

\* The transfer endpoint alone, on one worker, with every kind of request it
\* can get: any authenticated user, any well-formed recipient number, any
\* amount.
TransferNext ==
    \/ \E u \in Users, to \in WalletNumbers, v \in TransferAmounts :
          Quiet /\ TransferBegin(1, u, to, v)
    \/ TransferFindRecipient(1)
    \/ \E b \in GeneratedBases("-OUT") : TransferCommit(1, b)
    \/ Release(1)

TransferSpec == Init /\ [][TransferNext]_vars

\* Several worker processes (or replicas) on the one database: the requests'
\* database round trips interleave freely.  The requests are the ones that
\* move money (deposit, webhook settlement, transfer), with one amount, and
\* the webhooks are Paystack's own: validly signed charge.success events that
\* carry that amount.  A transfer that passes the balance check begins only
\* while the table has room for its rows.
ConcAmounts == {200}

ConcWebhookInputs == {<<"hmac", "charge.success", b, 200>> : b \in RefBases}

ConcNext ==
    \/ \E p \in Procs, u \in Wallets, a \in ConcAmounts,
          b \in GeneratedBases("") :
          DepositCreate(p, u, Raw(a), b)
    \/ \E p \in Procs : DepositGatewayOk(p)
    \/ \E p \in Procs : DepositGatewayFail(p)
    \/ \E p \in Procs, i \in ConcWebhookInputs :
          WebhookReceive(p, i[1], i[2], i[3], i[4])
    \/ \E p \in Procs : WebhookLoadWallet(p)
    \/ \E p \in Procs : WebhookCommit(p)
    \/ \E p \in Procs, u \in Wallets, to \in WalletNumbers,
          a \in ConcAmounts :
          /\ InsufficientBalance(balance[u], a) \/ Len(txns) + 2 <= MaxTxns
          /\ TransferBegin(p, u, to, Raw(a))
    \/ \E p \in Procs : TransferFindRecipient(p)
    \/ \E p \in Procs, b \in GeneratedBases("-OUT") : TransferCommit(p, b)
    \/ \E p \in Procs : Release(p)

ConcSpec == Init /\ [][ConcNext]_vars

\* Deposits, their settlement and the status query on several workers: the
\* status query of a reference runs while a webhook for it is being handled.
StatusNext ==
    \/ \E p \in Procs, u \in Wallets, a \in ConcAmounts,
          b \in GeneratedBases("") :
          DepositCreate(p, u, Raw(a), b)
    \/ \E p \in Procs : DepositGatewayOk(p)
    \/ \E p \in Procs : DepositGatewayFail(p)
    \/ \E p \in Procs, i \in ConcWebhookInputs :
          WebhookReceive(p, i[1], i[2], i[3], i[4])
    \/ \E p \in Procs : WebhookLoadWallet(p)
    \/ \E p \in Procs : WebhookCommit(p)
    \/ \E p \in Procs, b \in RefBases, h \in BOOLEAN : StatusBegin(p, b, h)
    \/ \E p \in Procs, g \in GatewayReports : StatusGateway(p, g)
    \/ \E p \in Procs : Release(p)

StatusSpec == Init /\ [][StatusNext]_vars

\* The deposit path on one worker that can be stopped while a deposit
\* initiation waits for Paystack.
CrashNext ==
    \/ \E u \in Wallets, a \in Amounts, b \in GeneratedBases("") :
          Quiet /\ DepositCreate(1, u, Raw(a), b)
    \/ DepositGatewayOk(1)
    \/ DepositGatewayFail(1)
    \/ DepositAbort(1)
    \/ \E i \in WebhookInputs :
          Quiet /\ WebhookReceive(1, i[1], i[2], i[3], i[4])
    \/ WebhookMismatchCommit(1)
    \/ WebhookLoadWallet(1)
    \/ WebhookCommit(1)
    \/ Release(1)

CrashSpec == Init /\ [][CrashNext]_vars

\* Registration and login alone, on several workers: Google callbacks for any
\* address, their database round trips interleaved.
AuthNext ==
    \/ \E p \in Procs, e \in Emails : CallbackBegin(p, e)
    \/ \E p \in Procs : CallbackCommitUser(p)
    \/ \E p \in Procs, n \in GeneratedWalletNumbers :
          CallbackCommitWallet(p, n)
    \/ \E p \in Procs : Release(p)

AuthSpec == Init /\ [][AuthNext]_vars

\* The wallet routes that accept an API key, on one worker: users create keys
\* with any permission list, and requests present a bearer token or a key.
KeyNext ==
    \/ \E u \in Wallets, perms \in KeyPermissions :
          /\ Quiet /\ cred[1] = NoCred /\ Len(apiKeys) < MaxKeys
          /\ CreateKeyBegin(1, u, perms)
    \/ CreateKeyCommit(1)
    \/ \E k \in KeyIds : Quiet /\ KeyExpire(k)
    \/ \E jwt \in {0} \cup Wallets, k \in PresentedKeys, op \in WalletOps :
          Authenticate(1, jwt, k, op)
    \/ cred[1].op = "balance" /\ GetBalance(1, cred[1].user)
    \/ \E a \in ConcAmounts, b \in GeneratedBases("") :
          cred[1].op = "deposit" /\ DepositCreate(1, cred[1].user, Raw(a), b)
    \/ DepositGatewayOk(1)
    \/ DepositGatewayFail(1)
    \/ \E to \in WalletNumbers, a \in ConcAmounts :
          cred[1].op = "transfer" /\ TransferBegin(1, cred[1].user, to, Raw(a))
    \/ TransferFindRecipient(1)
    \/ \E b \in GeneratedBases("-OUT") : TransferCommit(1, b)
    \/ Release(1)

KeySpec == Init /\ [][KeyNext]_vars

\* The key routes alone, for one user on several workers, the requests'
\* database round trips interleaved: the user creates keys, and deletes and
\* rolls over the oldest ones.  A request that would insert a row begins only
\* while the table has room for it.
LimitKeyRows == 6

LimitKeyTargets == 1..2

InsertsInFlight ==
    Cardinality({q \in Procs : pc[q] \in {"key_insert", "roll_commit"}})

KeyLimitNext ==
    \/ \E p \in Procs :
          /\ Len(apiKeys) + InsertsInFlight < LimitKeyRows
          /\ CreateKeyBegin(p, 1, {"read"})
    \/ \E p \in Procs : CreateKeyCommit(p)
    \/ \E p \in Procs, k \in LimitKeyTargets :
          /\ Len(apiKeys) + InsertsInFlight < LimitKeyRows
          /\ RolloverBegin(p, 1, k)
    \/ \E p \in Procs : RolloverCommit(p)
    \/ \E p \in Procs, k \in LimitKeyTargets : DeleteKeyBegin(p, 1, k)
    \/ \E p \in Procs : DeleteKeyCommit(p)
    \/ \E k \in LimitKeyTargets : KeyExpire(k)
    \/ \E p \in Procs : Release(p)

KeyLimitSpec == Init /\ [][KeyLimitNext]_vars

\* Deposits and transfers on one worker with every amount a request body
\* can carry.
AmountNext ==
    \/ \E u \in Wallets, v \in TransferAmounts, b \in GeneratedBases("") :
          Quiet /\ DepositCreate(1, u, v, b)
    \/ DepositGatewayOk(1)
    \/ DepositGatewayFail(1)
    \/ \E u \in Wallets, to \in WalletNumbers, v \in TransferAmounts :
          Quiet /\ TransferBegin(1, u, to, v)
    \/ TransferFindRecipient(1)
    \/ \E b \in GeneratedBases("-OUT") : TransferCommit(1, b)
    \/ Release(1)

AmountSpec == Init /\ [][AmountNext]_vars

\* The transfer endpoint alone, on one worker, for wallets whose numbers
\* are as the test fixtures seed them or as registration makes them; the
\* caller types a wallet's number as it is stored, or with WAL before it.
NumberInit ==
    /\ balance = [w \in Wallets |-> StartBalance(w)]
    /\ initBalance = balance
    /\ txns = <<>>
    /\ gateway = {}
    /\ pc = [p \in Procs |-> "idle"]
    /\ req = [p \in Procs |-> NoReq]
    /\ resp = [p \in Procs |-> NoResp]
    /\ userRows = Wallets
    /\ \E made \in [Wallets -> {"fixture", "registration"}] :
          walletRows =
              {[user |-> w,
                number |-> IF made[w] = "fixture"
                           THEN FixtureWalletNumber(w) ELSE TenDigits(w)] :
               w \in Wallets}
    /\ apiKeys = <<>>
    /\ cred = [p \in Procs |-> NoCred]

TypedNumbers ==
    {w.number : w \in walletRows}
        \cup {<<"W", "A", "L">> \o w.number : w \in walletRows}

NumberNext ==
    \/ \E u \in Wallets, s \in TypedNumbers, a \in ConcAmounts :
          Quiet /\ TransferRequest(1, u, s, Raw(a))
    \/ TransferFindRecipient(1)
    \/ \E b \in GeneratedBases("-OUT") : TransferCommit(1, b)
    \/ Release(1)

NumberSpec == NumberInit /\ [][NumberNext]_vars

\* The key routes and a route that accepts a key, on one worker: two users
\* create, delete and roll over keys by id, their own or not, time passes for
\* each key, and requests present a key or a bearer token.
AdminKeyRows == 3

AdminUsers == 1..2

AdminKeys == 0..(AdminKeyRows + 1)

KeyAdminNext ==
    \/ \E u \in AdminUsers, perms \in KeyPermissions :
          /\ Quiet /\ cred[1] = NoCred /\ Len(apiKeys) < AdminKeyRows
          /\ CreateKeyBegin(1, u, perms)
    \/ CreateKeyCommit(1)
    \/ \E u \in AdminUsers, k \in AdminKeys :
          /\ Quiet /\ cred[1] = NoCred /\ Len(apiKeys) < AdminKeyRows
          /\ RolloverBegin(1, u, k)
    \/ RolloverCommit(1)
    \/ \E u \in AdminUsers, k \in AdminKeys :
          Quiet /\ cred[1] = NoCred /\ DeleteKeyBegin(1, u, k)
    \/ DeleteKeyCommit(1)
    \/ \E k \in KeyIds : Quiet /\ cred[1] = NoCred /\ KeyExpire(k)
    \/ \E jwt \in {0, 1}, k \in AdminKeys : Authenticate(1, jwt, k, "balance")
    \/ cred[1].op = "balance" /\ GetBalance(1, cred[1].user)
    \/ Release(1)

KeyAdminSpec == Init /\ [][KeyAdminNext]_vars

\* ================================================================== claims

RECURSIVE SumOver(_, _)
\* The sum of f[i] over the i of a finite set.
SumOver(f, S) ==
    IF S = {} THEN 0
    ELSE LET i == CHOOSE j \in S : TRUE
         IN  f[i] + SumOver(f, S \ {i})

\* What the success rows of wallet w add up to: credits minus debits.
LedgerSum(w) ==
    LET signed == [i \in TxIds |->
                     IF txns[i].wallet # w \/ txns[i].status # "success" THEN 0
                     ELSE IF txns[i].type \in {"deposit", "transfer_in"}
                          THEN txns[i].amount
                     ELSE IF txns[i].type \in {"transfer_out", "withdrawal"}
                          THEN 0 - txns[i].amount
                     ELSE 0]
    IN  SumOver(signed, TxIds)

\* C1: in every state, every wallet's balance is its initial balance plus the
\* amounts of its success deposit and transfer_in rows minus the amounts of
\* its success transfer_out and withdrawal rows.
C1_BalanceMatchesLedger ==
    \A w \in Wallets : balance[w] = initBalance[w] + LedgerSum(w)

\* A slot has answered r.
Answered(p, r) == pc[p] = "done" /\ resp[p] = r

\* C2: two deliveries for one pending deposit reference, handled at the same
\* time, do not both pass the status check and both add the amount to the
\* balance: no delivery that settled the reference had loaded a balance that
\* already held the credit of another delivery that settled it.
C2_CreditedAtMostOnce ==
    \A p, q \in Procs :
        ~ /\ p # q
          /\ Answered(p, "wh_success") /\ Answered(q, "wh_success")
          /\ req[p].ref = req[q].ref
          /\ req[p].status = "pending" /\ req[q].status = "pending"
          /\ req[q].sBal >= req[p].sBal + req[p].amount

\* C3: of the transfers of one amount a that were all checked against the
\* same balance b of one sender, with more of them than b covers, no more than
\* floor(b / a) succeed.
C3_NoJointOverdraw ==
    \A p \in Procs :
        Answered(p, "tr_success") =>
            LET same == {q \in Procs :
                           /\ pc[q] = "done" /\ req[q].op = "transfer"
                           /\ req[q].user = req[p].user
                           /\ req[q].amount = req[p].amount
                           /\ req[q].sBal = req[p].sBal}
                won == {q \in same : resp[q] = "tr_success"}
            IN  Cardinality(same) * req[p].amount > req[p].sBal =>
                    Cardinality(won) <= req[p].sBal \div req[p].amount

\* A validly signed charge.success delivery arrives at slot p for a reference
\* whose transaction is already success.
RedeliveryStep(p) ==
    /\ pc[p] = "idle" /\ pc'[p] # "idle"
    /\ req'[p].op = "webhook" /\ req'[p].sig = "hmac"
    /\ req'[p].event = "charge.success"
    /\ req'[p].tx # 0
    /\ txns[req'[p].tx].status = "success"

\* The settlement of slot p commits.
SettlementStep(p) == pc[p] = "wh_commit" /\ pc'[p] = "done"

\* C4: deliveries in sequence: the delivery that settles a deposit credits the
\* wallet and marks the transaction success; a later delivery for that
\* reference is answered "already processed" and leaves every balance and the
\* whole transaction table (status and metadata) as they were.
C4_RedeliveryIsNoOp ==
    [][\A p \in Procs :
          /\ SettlementStep(p) =>
                /\ resp'[p] = "wh_success"
                /\ balance'[req[p].user] = balance[req[p].user] + req[p].amount
                /\ txns'[req[p].tx].status = "success"
          /\ RedeliveryStep(p) =>
                /\ resp'[p] = "wh_already_processed" /\ pc'[p] = "done"
                /\ balance' = balance
                /\ txns' = txns]_vars

C4_Witness ==
    \E p \in Procs :
        /\ Answered(p, "wh_already_processed")
        /\ txns[req[p].tx].status = "success"
        /\ txns[req[p].tx].meta.kind = "paystack"
        /\ balance[txns[req[p].tx].wallet]
             = initBalance[txns[req[p].tx].wallet] + req[p].amount

\* C5: no wallet balance is negative, and a transfer whose amount is more than
\* the sender's balance is answered InsufficientFunds.
C5_NoNegativeBalance ==
    /\ \A w \in Wallets : balance[w] >= 0
    /\ \A p \in Procs :
          pc[p] = "done" /\ req[p].op = "transfer"
          /\ req[p].amount > req[p].sBal
          => resp[p] = "tr_insufficient"

C5_Witness ==
    \E p \in Procs :
        /\ Answered(p, "tr_insufficient")
        /\ req[p].amount > balance[req[p].user]
        /\ balance[req[p].user] > 0

\* C6: a transaction in status success or failed never changes status again.
C6_StatusMonotonic ==
    [][\A i \in TxIds :
          txns[i].status \in {"success", "failed"}
          => txns'[i].status = txns[i].status]_vars

\* C7: a webhook for a transaction that is already in a terminal status is a
\* no-op: no delivery settles (credits the wallet and marks success) a
\* transaction that it found in status success or failed.
C7_TerminalWebhookIsNoOp ==
    \A p \in Procs :
        Answered(p, "wh_success") => req[p].status = "pending"

\* C8: a successful transfer of X from A to another wallet B takes exactly X
\* from A, gives exactly X to B, leaves every other balance alone and adds
\* exactly two success rows, a transfer_out on A and a transfer_in on B.
C8_TransferEffect ==
    [][\A p \in Procs :
          pc[p] = "tr_commit" /\ resp'[p] = "tr_success" =>
            LET a == req[p].user
                b == req[p].rcp
                x == req[p].amount
                n == Len(txns)
            IN  /\ a # b
                /\ balance[a] >= x
                /\ balance'[a] = balance[a] - x
                /\ balance'[b] = balance[b] + x
                /\ \A w \in Wallets \ {a, b} : balance'[w] = balance[w]
                /\ Len(txns') = n + 2
                /\ SubSeq(txns', 1, n) = txns
                /\ \E i, j \in {n + 1, n + 2} :
                      /\ i # j
                      /\ txns'[i].type = "transfer_out"
                      /\ txns'[i].wallet = a
                      /\ txns'[j].type = "transfer_in"
                      /\ txns'[j].wallet = b
                      /\ \A k \in {i, j} :
                            /\ txns'[k].status = "success"
                            /\ txns'[k].amount = x]_vars

C8_Witness ==
    \E p \in Procs :
        /\ Answered(p, "tr_success")
        /\ req[p].sBal >= req[p].amount
        /\ balance[req[p].user] = req[p].sBal - req[p].amount
        /\ balance[req[p].rcp] = req[p].rBal + req[p].amount
        /\ \E w \in Wallets \ {req[p].user, req[p].rcp} :
              balance[w] = initBalance[w]

\* The rows of the other type that are the sibling of row i: same reference
\* up to the suffix, same amount, another wallet.
Siblings(i, suffix, type) ==
    {j \in TxIds :
        /\ txns[j].type = type
        /\ txns[j].ref = Ref(txns[i].ref.base, suffix)
        /\ txns[j].amount = txns[i].amount
        /\ txns[j].wallet # txns[i].wallet}

\* C9: in every state each transfer_out row R-OUT has exactly one sibling
\* transfer_in row R-IN with the same amount on another wallet, and each
\* transfer_in row has exactly one such transfer_out sibling.
C9_TransferRowsPaired ==
    \A i \in TxIds :
        /\ txns[i].type = "transfer_out" =>
              /\ txns[i].ref.suffix = "-OUT"
              /\ Cardinality(Siblings(i, "-IN", "transfer_in")) = 1
        /\ txns[i].type = "transfer_in" =>
              /\ txns[i].ref.suffix = "-IN"
              /\ Cardinality(Siblings(i, "-OUT", "transfer_out")) = 1

C9_Witness ==
    \E i, j \in TxIds :
        /\ txns[i].type = "transfer_out"
        /\ j \in Siblings(i, "-IN", "transfer_in")

\* C10: a transfer that a precondition rejects (insufficient funds, recipient
\* not found, recipient is the sender) leaves every balance and the whole
\* transaction table as they were.
C10_RejectedTransferChangesNothing ==
    [][\A p \in Procs :
          /\ pc[p] # "done" /\ pc'[p] = "done"
          /\ resp'[p] \in {"tr_insufficient", "tr_recipient_not_found",
                           "tr_self"}
          => balance' = balance /\ txns' = txns]_vars

C10_Witness ==
    \E p \in Procs :
        /\ Answered(p, "tr_recipient_not_found")
        /\ req[p].sBal >= req[p].amount
        /\ balance[req[p].user] = req[p].sBal

\* The error of the first precondition of a transfer that fails, in the order
\* amount > 0, sender wallet exists, balance >= amount, recipient exists,
\* recipient is not the sender; "none" when all hold.
FirstFailure(q) ==
    IF ~(q.raw > 0) THEN "tr_invalid"
    ELSE IF q.user \notin Wallets THEN "tr_sender_not_found"
    ELSE IF q.sBal < q.amount THEN "tr_insufficient"
    ELSE IF q.to \notin Wallets THEN "tr_recipient_not_found"
    ELSE IF q.to = q.user THEN "tr_self"
    ELSE "none"

\* C11: a transfer is answered with the error of the first failing
\* precondition in that order, and goes through to the commit only when none
\* fails: with an insufficient balance it is InsufficientFunds whether or not
\* the recipient exists or is the sender.
C11_FirstFailureWins ==
    \A p \in Procs :
        pc[p] = "done" /\ req[p].op = "transfer" =>
            IF FirstFailure(req[p]) = "none"
            THEN resp[p] \in {"tr_success", "tr_failed"}
            ELSE resp[p] = FirstFailure(req[p])

C11_Witness ==
    \E p \in Procs :
        /\ Answered(p, "tr_insufficient")
        /\ req[p].amount > 0 /\ req[p].sBal < req[p].amount
        /\ req[p].to \notin Wallets \/ req[p].to = req[p].user

\* C12: a transfer that passed its preconditions and whose commit is refused
\* (its -OUT or -IN reference is already in the table) is answered with the
\* transfer-failure error, and every balance and the whole transaction table
\* are as they were before the request.
C12_FailedTransferRolledBack ==
    [][\A p \in Procs :
          pc[p] = "tr_commit" /\ pc'[p] = "done" =>
            /\ resp'[p] \in {"tr_success", "tr_failed"}
            /\ txns' = txns => resp'[p] = "tr_failed"
            /\ resp'[p] = "tr_failed" =>
                  /\ balance' = balance /\ txns' = txns
                  /\ balance'[req[p].user] = req[p].sBal
                  /\ balance'[req[p].rcp] = req[p].rBal]_vars

C12_Witness ==
    \E p \in Procs :
        /\ Answered(p, "tr_failed")
        /\ FirstFailure(req[p]) = "none"
        /\ balance[req[p].user] = req[p].sBal
        /\ \E i \in TxIds : txns[i].ref.suffix = "-OUT"

\* A step of a deposit initiation at slot p.
DepositStep(p) ==
    \/ pc[p] = "idle" /\ pc'[p] # "idle" /\ req'[p].op = "deposit"
    \/ pc[p] = "dep_gateway" /\ pc'[p] = "done"

\* C13: deposit initiation never changes a balance; when it succeeds it has
\* added exactly one row, a pending deposit on the caller's wallet with the
\* requested amount and a reference no row had; and a balance goes up only
\* in a webhook settlement or, for a recipient, in a transfer.
C13_DepositInitiationKeepsBalance ==
    [][/\ \A p \in Procs :
             /\ DepositStep(p) => balance' = balance
             /\ pc[p] = "idle" /\ pc'[p] = "dep_gateway" =>
                   /\ txns' = Append(txns, txns'[Len(txns')])
                   /\ txns'[Len(txns')].wallet = req'[p].user
                   /\ txns'[Len(txns')].type = "deposit"
                   /\ txns'[Len(txns')].status = "pending"
                   /\ txns'[Len(txns')].amount = req'[p].amount
                   /\ txns'[Len(txns')].ref = req'[p].ref
                   /\ ~RefTaken(req'[p].ref)
             /\ pc[p] = "dep_gateway" /\ resp'[p] = "dep_ok" => txns' = txns
       /\ (\E w \in Wallets : balance'[w] > balance[w]) =>
             \E p \in Procs : pc[p] \in {"wh_commit", "tr_commit"}]_vars

C13_Witness ==
    \E p \in Procs :
        /\ Answered(p, "dep_ok")
        /\ txns[req[p].tx].status = "pending"
        /\ txns[req[p].tx].amount = req[p].amount
        /\ balance[req[p].user] = initBalance[req[p].user]
        /\ initBalance[req[p].user] > 0

\* C14: when the gateway initialize call fails, the deposit's transaction is
\* failed when the request ends, the caller is answered with the gateway
\* error, and no balance and no other transaction has changed.
C14_GatewayFailureFailsDeposit ==
    [][\A p \in Procs :
          pc[p] = "dep_gateway" /\ resp'[p] = "dep_gateway_error" =>
            /\ pc'[p] = "done"
            /\ txns[req[p].tx].status = "pending"
            /\ txns'[req[p].tx].status = "failed"
            /\ balance' = balance
            /\ Len(txns') = Len(txns)
            /\ \A i \in TxIds \ {req[p].tx} : txns'[i] = txns[i]]_vars

C14_Witness ==
    \E p \in Procs :
        /\ Answered(p, "dep_gateway_error")
        /\ txns[req[p].tx].status = "failed"
        /\ txns[req[p].tx].type = "deposit"
        /\ balance[req[p].user] = initBalance[req[p].user]

\* The rows other than row i are left as they were.
OtherRowsUnchanged(i) ==
    /\ Len(txns') = Len(txns)
    /\ \A j \in TxIds \ {i} : txns'[j] = txns[j]

\* C15: for a pending deposit of amount A on a wallet with balance B, a
\* validly signed charge.success webhook whose amount is A gives, in one
\* commit, balance B + A, status success and the gateway's confirmation as
\* metadata; the steps of the delivery before that commit change nothing, and
\* no step makes a deposit success without crediting its wallet in that step.
C15_SettlementIsOneCommit ==
    [][/\ \A p \in Procs :
             /\ /\ req'[p].op = "webhook" /\ pc'[p] # pc[p]
                /\ pc'[p] \in {"wh_wallet", "wh_commit"}
                => balance' = balance /\ txns' = txns
             /\ /\ pc[p] = "wh_commit" /\ pc'[p] = "done"
                /\ txns[req[p].tx].status = "pending"
                /\ req[p].amount = txns[req[p].tx].amount
                => LET i == req[p].tx
                       w == txns[i].wallet
                   IN  /\ resp'[p] = "wh_success"
                       /\ balance'[w] = balance[w] + txns[i].amount
                       /\ \A v \in Wallets \ {w} : balance'[v] = balance[v]
                       /\ txns'[i].status = "success"
                       /\ txns'[i].meta.kind = "paystack"
                       /\ OtherRowsUnchanged(i)
       /\ \A i \in TxIds :
             /\ txns[i].type = "deposit"
             /\ txns[i].status # "success" /\ txns'[i].status = "success"
             => balance'[txns[i].wallet] > balance[txns[i].wallet]]_vars

C15_Witness ==
    \E p \in Procs :
        /\ Answered(p, "wh_success")
        /\ req[p].status = "pending"
        /\ req[p].amount = txns[req[p].tx].amount
        /\ req[p].sBal > 0
        /\ balance[req[p].user] = req[p].sBal + txns[req[p].tx].amount
        /\ txns[req[p].tx].status = "success"
        /\ txns[req[p].tx].meta.kind = "paystack"

\* C16: a settlement credits the wallet with exactly the amount recorded on
\* the transaction, for every payload amount that passes the tolerance check.
C16_CreditIsRecordedAmount ==
    [][\A p \in Procs :
          pc[p] = "wh_commit" /\ resp'[p] = "wh_success" =>
            balance'[req[p].user]
              = balance[req[p].user] + txns[req[p].tx].amount]_vars

\* C17: a validly signed charge.success webhook for a transaction that is
\* already success, with an amount that fails the amount check against the
\* recorded one, is answered "already processed": the transaction is not
\* failed, its metadata is kept and no balance changes.
C17_GateBeforeAmountCheck ==
    [][\A p \in Procs :
          /\ RedeliveryStep(p)
          /\ AmountMismatch(txns[req'[p].tx].amount, req'[p].amount)
          => /\ pc'[p] = "done" /\ resp'[p] = "wh_already_processed"
             /\ balance' = balance
             /\ txns' = txns]_vars

C17_Witness ==
    \E p \in Procs :
        /\ Answered(p, "wh_already_processed")
        /\ AmountMismatch(txns[req[p].tx].amount, req[p].amount)
        /\ txns[req[p].tx].status = "success"
        /\ txns[req[p].tx].meta.kind = "paystack"

\* C18: a validly signed charge.success webhook for a pending transaction,
\* with an amount that differs from the recorded one by more than the
\* tolerance, fails the transaction, records the expected and the received
\* amount in its metadata, is rejected, and leaves every balance alone.
C18_MismatchFailsTransaction ==
    [][\A p \in Procs :
          /\ /\ pc[p] = "idle" /\ req'[p].op = "webhook"
             /\ req'[p].sig = "hmac" /\ req'[p].event = "charge.success"
             /\ req'[p].tx # 0 /\ req'[p].status = "pending"
             /\ req'[p].amount - txns[req'[p].tx].amount > 1
             => pc'[p] = "wh_fail" /\ balance' = balance /\ txns' = txns
          /\ /\ pc[p] = "wh_fail" /\ pc'[p] = "done"
             /\ txns[req[p].tx].status = "pending"
             => LET i == req[p].tx
                IN  /\ resp'[p] = "wh_amount_mismatch"
                    /\ txns'[i].status = "failed"
                    /\ txns'[i].meta = [kind |-> "mismatch",
                                        expected |-> txns[i].amount,
                                        received |-> req[p].amount]
                    /\ OtherRowsUnchanged(i)
                    /\ balance' = balance]_vars

C18_Witness ==
    \E p \in Procs :
        /\ Answered(p, "wh_amount_mismatch")
        /\ req[p].status = "pending"
        /\ txns[req[p].tx].status = "failed"
        /\ txns[req[p].tx].meta.kind = "mismatch"
        /\ txns[req[p].tx].meta.expected = txns[req[p].tx].amount
        /\ txns[req[p].tx].meta.received = req[p].amount
        /\ req[p].amount > txns[req[p].tx].amount + 1

\* C19: a webhook whose signature header is missing, or is not the HMAC of
\* the body, is rejected before anything is parsed or looked up and changes
\* nothing; a delivery gets further only with the HMAC as its signature.
C19_BadSignatureRejected ==
    [][\A p \in Procs :
          pc[p] = "idle" /\ req'[p].op = "webhook" =>
            IF req'[p].sig # "hmac"
            THEN /\ pc'[p] = "done"
                 /\ resp'[p] = IF req'[p].sig = "missing"
                                THEN "wh_missing_signature"
                                ELSE "wh_bad_signature"
                 /\ req'[p].tx = 0 /\ req'[p].ref = NoReq.ref
                 /\ balance' = balance /\ txns' = txns
            ELSE resp'[p] \notin {"wh_missing_signature",
                                  "wh_bad_signature"}]_vars

C19_Witness ==
    \E p \in Procs :
        /\ Answered(p, "wh_bad_signature")
        /\ req[p].sig = "forged"
        /\ \E i \in TxIds : txns[i].status = "pending" /\ txns[i].ref.base = 1

\* C20: a validly signed webhook whose event is not charge.success, or whose
\* reference is that of no transaction, is answered "ignored" (not an error)
\* and changes no balance and no transaction.
C20_IgnoredWebhookChangesNothing ==
    [][\A p \in Procs :
          pc[p] = "idle" /\ req'[p].op = "webhook" /\ req'[p].sig = "hmac" =>
            /\ req'[p].event = "other" =>
                  /\ pc'[p] = "done" /\ resp'[p] = "wh_ignored_event"
                  /\ balance' = balance /\ txns' = txns
            /\ /\ req'[p].event = "charge.success"
               /\ req'[p].amount > 0
               /\ ~RefTaken(req'[p].ref)
               => /\ pc'[p] = "done" /\ resp'[p] = "wh_ignored_unknown"
                  /\ balance' = balance /\ txns' = txns]_vars

C20_Witness ==
    \E p \in Procs :
        /\ Answered(p, "wh_ignored_unknown")
        /\ req[p].sig = "hmac"
        /\ ~RefTaken(req[p].ref)
        /\ \E i \in TxIds : txns[i].status = "pending"

\* C21: the deposit status query only observes: whatever Paystack reports
\* for the reference, no step of the query changes a balance or a
\* transaction, and a transaction becomes success only in the commit of a
\* webhook delivery, also while a query of its reference is under way.
C21_StatusQueryObservesOnly ==
    [][/\ \A p \in Procs :
             /\ pc'[p] # pc[p]
             /\ req[p].op = "status" \/ req'[p].op = "status"
             => balance' = balance /\ txns' = txns
       /\ \A i \in TxIds :
             txns[i].status # "success" /\ txns'[i].status = "success"
             => \E p \in Procs : /\ pc[p] = "wh_commit" /\ pc'[p] = "done"
                                 /\ req[p].tx = i]_vars

C21_Witness ==
    \E p, q \in Procs :
        /\ Answered(p, "st_ok")
        /\ req[p].event = "success"
        /\ txns[req[p].tx].status = "pending"
        /\ req[q].op = "webhook" /\ pc[q] = "wh_commit"
        /\ req[q].tx = req[p].tx
        /\ balance = initBalance

\* Slot p takes a step of a request of one of the kinds in ops.
StepOf(p, ops) ==
    /\ pc'[p] # pc[p]
    /\ req[p].op \in ops \/ req'[p].op \in ops

LifecycleOps == {"cancel", "expire", "clear"}

\* C22: a cancel by reference goes through only for a pending transaction,
\* which becomes failed with the audit note appended to its description; for
\* a transaction that is success or failed the cancel is rejected with an
\* error and the table is left as it was.
C22_CancelOnlyPending ==
    [][\A p \in Procs :
          /\ /\ pc[p] = "idle" /\ req'[p].op = "cancel" /\ req'[p].tx # 0
             /\ txns[req'[p].tx].status \in {"success", "failed"}
             => /\ pc'[p] = "done"
                /\ resp'[p] = IF txns[req'[p].tx].status = "success"
                               THEN "cancel_rejected_success"
                               ELSE "cancel_rejected_failed"
                /\ txns' = txns
          /\ req[p].op = "cancel" /\ resp'[p] = "cancel_ok" =>
                LET i == req[p].tx
                IN  /\ txns[i].status = "pending"
                    /\ txns'[i].status = "failed"
                    /\ txns'[i].notes = Append(txns[i].notes, "cancelled")
                    /\ OtherRowsUnchanged(i)]_vars

C22_Witness ==
    \E p \in Procs :
        /\ Answered(p, "cancel_rejected_failed")
        /\ txns[req[p].tx].status = "failed"
        /\ txns[req[p].tx].notes = <<"deposit", "cancelled">>

\* C23: no step of a bulk expire, a cancel by reference or a clear-all
\* changes a wallet balance, whatever the answer of the call.
C23_LifecycleKeepsBalances ==
    [][\A p \in Procs : StepOf(p, LifecycleOps) => balance' = balance]_vars

C23_Witness ==
    \E p \in Procs :
        /\ Answered(p, "clear_ok")
        /\ balance[req[p].user] > 0
        /\ balance[req[p].user] # initBalance[req[p].user]
        /\ \E i \in req[p].rows : txns[i].status = "failed"

\* C24: a bulk expire with threshold d fails exactly the caller's pending
\* transactions older than d and leaves every other row as it was; with a
\* threshold below 1 it is rejected and changes nothing, so no bulk expire
\* fails a pending transaction younger than one day.
C24_ExpireExactlyOldPending ==
    [][\A p \in Procs :
          /\ pc[p] = "idle" /\ req'[p].op = "expire" /\ req'[p].days < 1
             => /\ pc'[p] = "done" /\ resp'[p] = "expire_bad_days"
                /\ txns' = txns
          /\ StepOf(p, {"expire"}) =>
                /\ Len(txns') = Len(txns)
                /\ \A i \in TxIds :
                      IF /\ pc[p] = "expire_commit"
                         /\ txns[i].wallet = req[p].user
                         /\ txns[i].status = "pending"
                         /\ txns[i].age >= req[p].days
                      THEN /\ txns'[i].status = "failed"
                           /\ txns[i].age >= 1
                      ELSE txns'[i] = txns[i]
          /\ /\ pc[p] = "idle" /\ req'[p].op = "expire" /\ req'[p].days >= 1
             /\ \E i \in TxIds : /\ txns[i].wallet = req'[p].user
                                  /\ txns[i].status = "pending"
                                  /\ txns[i].age >= req'[p].days
             => pc'[p] = "expire_commit"]_vars

C24_Witness ==
    \E p \in Procs :
        /\ Answered(p, "expire_ok")
        /\ \E i, j \in TxIds :
              /\ txns[i].wallet = req[p].user /\ txns[j].wallet = req[p].user
              /\ txns[i].status = "failed" /\ txns[i].age >= req[p].days
              /\ txns[i].notes = <<"deposit", "expired">>
              /\ txns[j].status = "pending" /\ txns[j].age < req[p].days

\* C25: a cancel with the reference of a transaction of another user's
\* wallet is answered not found, and no step of a cancel, a bulk expire or a
\* clear-all changes a transaction whose wallet is not the caller's.
C25_LifecycleOnlyOwnRows ==
    [][\A p \in Procs :
          /\ /\ pc[p] = "idle" /\ req'[p].op = "cancel"
             /\ RefTaken(req'[p].ref)
             /\ txns[FindTx(req'[p].ref)].wallet # req'[p].user
             => /\ pc'[p] = "done" /\ resp'[p] = "cancel_not_found"
                /\ txns' = txns
          /\ StepOf(p, LifecycleOps) =>
                /\ Len(txns') = Len(txns)
                /\ \A i \in TxIds :
                      txns[i].wallet # req'[p].user => txns'[i] = txns[i]]_vars

C25_Witness ==
    \E p \in Procs :
        /\ Answered(p, "cancel_not_found")
        /\ RefTaken(req[p].ref)
        /\ txns[FindTx(req[p].ref)].wallet # req[p].user
        /\ txns[FindTx(req[p].ref)].status = "pending"

\* C26: no two transactions have the same reference, and no request is
\* answered with the collision of its generated reference as an error (it goes
\* on with another reference instead).
C26_CollisionIsRetried ==
    /\ \A i, j \in TxIds : txns[i].ref = txns[j].ref => i = j
    /\ \A p \in Procs :
          pc[p] = "done" => resp[p] \notin {"dep_integrity_error", "tr_failed"}

\* C27: a pending deposit whose initiating request has ended is one whose
\* payment Paystack has initialised.
C27_NoOrphanedPendingDeposit ==
    \A i \in TxIds :
        /\ txns[i].type = "deposit" /\ txns[i].status = "pending"
        /\ ~ \E p \in Procs : pc[p] = "dep_gateway" /\ req[p].tx = i
        => \E g \in gateway : g.ref = txns[i].ref

\* C28: a pending deposit whose payment Paystack has initialised has the
\* access code that initialize returned recorded on its row.
C28_PendingRecordsAccessCode ==
    \A i \in TxIds :
        /\ txns[i].type = "deposit" /\ txns[i].status = "pending"
        /\ \E g \in gateway : g.ref = txns[i].ref
        => txns[i].meta # NoMeta

\* C29: every registered user has exactly one wallet in every committed
\* state: the wallet is created in one atomic step with the user row, so also
\* after a failure between the two writes (a wallet-number collision) no user
\* is without a wallet, and logging in again creates no second wallet.  The
\* formula leaves out the users whose callback still stands between its two
\* commits.
C29_UserHasExactlyOneWallet ==
    \A u \in userRows :
        (~ \E p \in Procs : pc[p] = "cb_wallet" /\ req[p].user = u)
        => Cardinality(WalletsOf(u)) = 1

\* The permission a wallet route's docstring names for its operation.
OperationPermission(op) ==
    CASE op = "balance" -> "read"
      [] op = "deposit" -> "deposit"
      [] op = "transfer" -> "transfer"
      [] OTHER -> "none"

\* C30: a wallet operation authenticated by an API key is performed only if
\* the key's permission list holds the operation's permission (read for the
\* balance, deposit for a deposit, transfer for a transfer); a transfer asked
\* for with a read-only key is denied.  No handler is running, or has run, for
\* a request whose key would not pass the permission check.
C30_KeyPermissionEnforced ==
    \A p \in Procs :
        cred[p].key # 0 /\ pc[p] # "idle"
        => PermissionChecker(cred[p].key, OperationPermission(req[p].op)) # 0
             \/ GetCurrentService(cred[p].key) = 0

\* C31: a user never has more than 5 active API keys, after any sequence or
\* interleaving of create, rollover and delete requests, two creates whose
\* count check and insert overlap included.
C31_AtMostFiveActiveKeys ==
    \A u \in userRows : ActiveKeysCount(u) <= KeyLimit

\* C32: amounts round-trip across the gateway: for a deposit of amount A the
\* kobo amount sent to initialize is exactly A * 100, so that a webhook with
\* that kobo amount converts back to A and settles with a credit of A.
C32_GatewayAmountIsExact ==
    \A i \in TxIds, g \in gateway :
        g.ref = txns[i].ref => g.kobo = txns[i].amount

\* The balance of wallet w that the transfer of slot q loaded.
LoadedByTransfer(q, w) == IF req[q].user = w THEN req[q].sBal ELSE req[q].rBal

\* C33: when a webhook settlement and a transfer on the same wallet run at
\* the same time, both effects are in the final balance: of a settlement and
\* a transfer that both committed, neither computed the wallet's new balance
\* from the value the other one also started from.
C33_NoLostUpdate ==
    \A p, q \in Procs :
        ~ /\ p # q
          /\ Answered(p, "wh_success") /\ Answered(q, "tr_success")
          /\ req[p].user \in {req[q].user, req[q].rcp}
          /\ req[p].sBal = LoadedByTransfer(q, req[p].user)

\* What all wallets hold together.
TotalBalance(b) == SumOver(b, Wallets)

\* C34: transfers conserve money: no transfer, successful or rejected, alone
\* or interleaved with others, changes the sum of all balances; the sum
\* changes only in the commit of a webhook settlement.
C34_TransfersConserveMoney ==
    [][(\A p \in Procs : ~(pc[p] = "wh_commit" /\ pc'[p] = "done"))
          => TotalBalance(balance') = TotalBalance(balance)]_vars

\* C35: every transaction row made by deposit initiation or by a transfer has
\* amount > 0: a request whose amount is not positive after validation and
\* rounding (an amount below 0.005) is rejected before any row is made.
C35_RowAmountsPositive ==
    \A i \in TxIds : txns[i].amount > 0

C40_RowIdentityImmutable ==
    [][/\ Len(txns') >= Len(txns)
       /\ \A i \in TxIds :
             /\ txns'[i].amount = txns[i].amount
             /\ txns'[i].type = txns[i].type
             /\ txns'[i].wallet = txns[i].wallet
             /\ txns'[i].ref = txns[i].ref]_vars

C40_Witness ==
    \E p \in Procs :
        /\ Answered(p, "wh_success")
        /\ txns[req[p].tx].status = "success"
        /\ txns[req[p].tx].amount # req[p].amount

\* The wallet of the request's sender was made by registration.
SenderRegistered(q) ==
    \E w \in walletRows :
        w.user = q.user /\ w.number \in GeneratedWalletNumbers

\* The request is addressed to the number of another user's wallet that was
\* made by registration.
RecipientRegistered(q) ==
    \E w \in walletRows :
        /\ w.number \in GeneratedWalletNumbers
        /\ w.user # q.user
        /\ q.number = w.number \/ q.to = w.user

\* C37: any two distinct wallets made by registration can transfer to each
\* other: the number registration assigned passes the transfer request's
\* validation, so a transfer of a positive amount within the sender's balance
\* addressed to the recipient's registered number succeeds.
C37_RegisteredWalletsCanTransfer ==
    \A p \in Procs :
        /\ pc[p] = "done" /\ req[p].op = "transfer"
        /\ SenderRegistered(req[p]) /\ RecipientRegistered(req[p])
        /\ req[p].amount > 0 /\ req[p].amount <= req[p].sBal
        => resp[p] = "tr_success"

\* C38: a key whose expires_at is in the past, or that is not active (it was
\* deleted or rolled over), never authenticates a request: a request is given
\* the credentials of key k only while k is active and its expires_at is not
\* before now, so every request that presents only such a key is rejected.
C38_DeadKeyNeverAuthenticates ==
    [][\A p \in Procs :
          /\ \A k \in KeyIds :
                cred[p] = NoCred /\ cred'[p].key = k
                    => apiKeys[k].active /\ apiKeys[k].ttl >= 0
          /\ \A k \in KeyIds, op \in WalletOps :
                /\ ~apiKeys[k].active \/ apiKeys[k].ttl < 0
                /\ Authenticate(p, 0, k, op)
                => pc'[p] = "done" /\ resp'[p] = "unauthorized"]_vars

\* A request presenting a key that was deleted or rolled over, and no bearer
\* token, has been answered 401.
C38_Witness ==
    \E p \in Procs :
        /\ Answered(p, "unauthorized")
        /\ req[p].key \in KeyIds
        /\ ~apiKeys[req[p].key].active

\* The rows of the key table other than row k are the same after the step.
OtherKeysUnchanged(k) ==
    \A j \in KeyIds : j # k => apiKeys'[j] = apiKeys[j]

\* C39: rollover_api_key succeeds only for a key of the caller whose
\* expires_at is not in the future; its commit adds exactly one row, active,
\* of the caller, with the old key's permissions, and deactivates the old key
\* in the same step; a rollover of a key that is not the caller's or not
\* expired is rejected and leaves the key table as it was.
C39_RolloverOnlyOwnExpiredKey ==
    [][\A p \in Procs :
          /\ pc[p] = "roll_commit" /\ pc'[p] = "done"
                => LET k == req[p].key
                       n == Len(apiKeys) + 1
                   IN  /\ resp'[p] = "key_rolled_over"
                       /\ k \in KeyIds
                       /\ apiKeys[k].user = req[p].user
                       /\ apiKeys[k].ttl <= 0
                       /\ Len(apiKeys') = n
                       /\ apiKeys'[n].user = req[p].user
                       /\ apiKeys'[n].active /\ apiKeys'[n].ttl > 0
                       /\ apiKeys'[n].perms = apiKeys[k].perms
                       /\ apiKeys'[k] = [apiKeys[k] EXCEPT !.active = FALSE]
                       /\ OtherKeysUnchanged(k)
          /\ resp'[p] = "key_rolled_over" /\ pc'[p] = "done" /\ pc[p] # "done"
                => pc[p] = "roll_commit"
          /\ pc[p] = "idle" /\ pc'[p] # "idle" /\ req'[p].op = "rollover"
                => LET k == req'[p].key
                   IN  /\ apiKeys' = apiKeys
                       /\ (k \notin KeyIds \/ apiKeys[k].user # req'[p].user
                              \/ apiKeys[k].ttl > 0)
                            => /\ pc'[p] = "done"
                               /\ resp'[p] \in {"key_not_found",
                                                 "key_not_expired"}]_vars

\* A rollover has succeeded, and rollovers of another user's key and of a
\* key that is not expired have been seen rejected before it: the table holds
\* a deactivated key and a newer active key of the same user and permissions.
C39_Witness ==
    \E p \in Procs, k \in KeyIds :
        /\ Answered(p, "key_rolled_over")
        /\ req[p].key = k
        /\ ~apiKeys[k].active
        /\ apiKeys[Len(apiKeys)].active
        /\ apiKeys[Len(apiKeys)].perms = apiKeys[k].perms
        /\ apiKeys[Len(apiKeys)].user = apiKeys[k].user

====
